---- MODULE Spec2Model ----
(***************************************************************************)
(* A model of the map-unit resource adapter and its Mergeable              *)
(* implementation (uk-content/src/map/unit.rs), of the Platform / Settings *)
(* helpers (src/settings.rs) and of the BNP actor-info build step          *)
(* (uk-manager/src/bnp/actorinfo.rs).                                      *)
(***************************************************************************)
EXTENDS Integers, Sequences, FiniteSets, TLC

VARIABLES
    op,        \* the last MapUnit operation performed
    tree,      \* the Byml tree handed to MapUnit::try_from
    dec,       \* the Result of MapUnit::try_from(tree)
    tree2,     \* Byml::from(dec value)
    dec2,      \* the Result of MapUnit::try_from(tree2)
    a,         \* self / base MapUnit of diff and merge
    b,         \* other MapUnit of diff
    d,         \* the diff MapUnit (computed, or a mod's)
    d2,        \* a second mod's diff MapUnit
    r,         \* a.merge(d)
    r12,       \* a.merge(d).merge(d2)
    r21        \* a.merge(d2).merge(d)

VARIABLES
    settings,  \* the Settings snapshot
    conv,      \* the last Platform <-> Endian conversion performed
    pdir,      \* the last Settings::get_platform_dir result
    platform,  \* BnpConverter::platform
    patch,     \* the state of logs/actorinfo.yml
    resource,  \* what each platform's dump holds at Actor/ActorInfo.product.sbyml
    out0,      \* the output file before the run
    out,       \* the output file Actor/ActorInfo.product.sbyml
    pc,        \* where handle_actorinfo is
    fetched,   \* the platform whose dump supplied the base resource
    endian,    \* the byte order the merged output was encoded with
    result     \* what handle_actorinfo returned

uvars == <<op, tree, dec, tree2, dec2, a, b, d, d2, r, r12, r21>>
svars == <<settings, conv, pdir>>
pvars == <<platform, patch, resource, out0, out, pc, fetched, endian, result>>

vars == <<uvars, svars, pvars>>

-----------------------------------------------------------------------------
(* Bounds of the model.                                                    *)

\* a MapUnit operand holds at most MaxUnit present scalars and entries
MaxUnit == 2
\* the two operands of a diff or merge hold at most MaxSize, both together
MaxSize == 4
\* the base and the two diffs of a stacking hold at most MaxStack, all together
MaxStack == 3
\* a tree holds at most MaxTree scalar members and array elements
MaxTree == 2
\* fs::write hands the bytes to the file in MaxChunks writes
MaxChunks == 2

\* sample HashId values
HashIds == {1, 2, 3}
\* sample f32 values
Floats == {1, 2}
\* sample contents of an object / rail node besides its HashId
Bodies == {"A", "B"}

-----------------------------------------------------------------------------
(* Option<f32>                                                             *)

None == [some |-> FALSE, v |-> 0]
Some(x) == [some |-> TRUE, v |-> x]
OptF32 == {None} \cup {Some(x) : x \in Floats}

-----------------------------------------------------------------------------
(* Byml nodes.  A scalar node is [t, v]: t is the variant tag, v the       *)
(* number of a Float or UInt node.  An element of Objs / Rails is          *)
(* [t, id, data]: t its variant tag, id its "HashId" member (a scalar      *)
(* node, Absent when it has none) and data the rest of its members.        *)

Absent == [t |-> "Absent", v |-> 0]
FloatNode(x) == [t |-> "Float", v |-> x]
UIntNode(x) == [t |-> "UInt", v |-> x]
StringNode == [t |-> "String", v |-> 0]

\* an Objs / Rails element: a hash with HashId `idn` and other members `body`
ObjNode(idn, body) == [t |-> "Hash", id |-> idn, data |-> body]
\* an element that is not a hash
NotHashNode(body) == [t |-> "String", id |-> Absent, data |-> body]

\* a well-formed object value with HashId i
Obj(i, body) == ObjNode(UIntNode(i), body)
Objs == {Obj(i, body) : i \in HashIds, body \in Bodies}

\* the value slot of a tombstone entry (key, _|_)
NoObj == ObjNode(Absent, "")

-----------------------------------------------------------------------------
(* SortedDeleteMap<u32, Byml> (crate::util): the delete-tracking ordered   *)
(* map.  A container is a sequence of entries in discovery order; an entry *)
(* is (key, value) or a tombstone (key, _|_).                              *)

Entry(k, x) == [key |-> k, val |-> x, del |-> FALSE]
Tomb(k) == [key |-> k, val |-> NoObj, del |-> TRUE]

Keys(m) == {m[i].key : i \in DOMAIN m}
LiveKeys(m) == {m[i].key : i \in {j \in DOMAIN m : ~m[j].del}}
DeadKeys(m) == {m[i].key : i \in {j \in DOMAIN m : m[j].del}}
\* position of key k in m (k \in Keys(m))
IndexOf(m, k) == CHOOSE i \in DOMAIN m : m[i].key = k
\* m[k] for a live key k
Get(m, k) == m[CHOOSE i \in DOMAIN m : m[i].key = k /\ ~m[i].del].val

\* insert into the map: an existing key keeps its place and takes the new value
SDM_Insert(m, k, x) ==
    IF k \in Keys(m)
    THEN [m EXCEPT ![IndexOf(m, k)] = Entry(k, x)]
    ELSE Append(m, Entry(k, x))

\* FromIterator<(u32, Byml)>: insert the pairs one after the other
RECURSIVE SDM_FromIter(_)
SDM_FromIter(pairs) ==
    IF pairs = <<>>
    THEN <<>>
    ELSE LET n == Len(pairs)
             m == SDM_FromIter(SubSeq(pairs, 1, n - 1))
         IN SDM_Insert(m, pairs[n][1], pairs[n][2])

\* into_iter().map(|(_, obj)| obj): the live values, in order
SDM_Values(m) ==
    LET IsLive(e) == ~e.del
        live == SelectSeq(m, IsLive)
    IN [i \in DOMAIN live |-> live[i].val]

\* diff(base, other): other's new or changed entries, then a tombstone for every
\* key of base that other lacks
SDM_Diff(base, other) ==
    LET Changed(e) == ~e.del /\ (e.key \notin LiveKeys(base) \/ Get(base, e.key) # e.val)
        Gone(e) == ~e.del /\ e.key \notin LiveKeys(other)
        gone == SelectSeq(base, Gone)
    IN SelectSeq(other, Changed) \o [i \in DOMAIN gone |-> Tomb(gone[i].key)]

\* merge(base, diff): base order with tombstoned keys dropped and diffed values
\* overwritten in place, then the diff's live entries new to base, in diff order
SDM_Merge(base, diff) ==
    LET Keep(e) == ~e.del /\ e.key \notin DeadKeys(diff)
        New(e) == ~e.del /\ e.key \notin Keys(base)
        kept == SelectSeq(base, Keep)
    IN [i \in DOMAIN kept |->
            IF kept[i].key \in LiveKeys(diff)
            THEN Entry(kept[i].key, Get(diff, kept[i].key))
            ELSE kept[i]] \o SelectSeq(diff, New)

\* PartialEq: the same live entries under the same identifiers
SDM_Eq(m, n) ==
    /\ LiveKeys(m) = LiveKeys(n)
    /\ \A k \in LiveKeys(m) : Get(m, k) = Get(n, k)
    /\ Cardinality(LiveKeys(m)) = Cardinality({i \in DOMAIN m : ~m[i].del})
    /\ Cardinality(LiveKeys(n)) = Cardinality({i \in DOMAIN n : ~n[i].del})

-----------------------------------------------------------------------------
(* MapUnit and its conversions (uk-content/src/map/unit.rs)                *)

MapUnit(x, y, s, o, l) ==
    [pos_x |-> x, pos_y |-> y, size |-> s, objects |-> o, rails |-> l]

EmptyUnit == MapUnit(None, None, None, <<>>, <<>>)

Ok(u) == [ok |-> TRUE, err |-> "", val |-> u]
Err(e) == [ok |-> FALSE, err |-> e, val |-> EmptyUnit]

\* hash.get(key).map(|v| v.as_float()).transpose(): Ok(None) for an absent key,
\* Ok(Some(f)) for a float, an error for any other variant
OptFloat(n) ==
    IF n.t = "Absent" THEN [ok |-> TRUE, val |-> None]
    ELSE IF n.t = "Float" THEN [ok |-> TRUE, val |-> Some(n.v)]
    ELSE [ok |-> FALSE, val |-> None]

\* the closure mapped over the array: "" when the element yields (id, obj)
ElemErr(e, missing) ==
    IF e.t # "Hash" THEN "TypeError"
    ELSE IF e.id.t = "Absent" THEN missing
    ELSE IF e.id.t # "UInt" THEN "TypeError"
    ELSE ""

\* hash.get(key).ok_or(..)?.as_array()?.iter().map(..).collect::<Result<_>>()
Collect(arr, missingKey, missingId) ==
    IF arr.t = "Absent" THEN [ok |-> FALSE, err |-> missingKey, val |-> <<>>]
    ELSE IF arr.t # "Array" THEN [ok |-> FALSE, err |-> "TypeError", val |-> <<>>]
    ELSE LET bad == {i \in DOMAIN arr.a : ElemErr(arr.a[i], missingId) # ""}
         IN IF bad # {}
            THEN LET first == CHOOSE i \in bad : \A j \in bad : i <= j
                 IN [ok |-> FALSE, err |-> ElemErr(arr.a[first], missingId), val |-> <<>>]
            ELSE [ok |-> TRUE, err |-> "",
                  val |-> SDM_FromIter([i \in DOMAIN arr.a |-> <<arr.a[i].id.v, arr.a[i]>>])]

\* impl TryFrom<&Byml> for MapUnit
TryFrom(byml) ==
    IF byml.root # "Hash" THEN Err("TypeError")
    ELSE LET x == OptFloat(byml.LocationPosX)
             y == OptFloat(byml.LocationPosY)
             s == OptFloat(byml.LocationSize)
             o == Collect(byml.Objs, "Map unit missing objs", "Map unit object missing hash ID")
             l == Collect(byml.Rails, "Map unit missing rails", "Map unit rail missing hash ID")
         IN IF ~x.ok \/ ~y.ok \/ ~s.ok THEN Err("TypeError")
            ELSE IF ~o.ok THEN Err(o.err)
            ELSE IF ~l.ok THEN Err(l.err)
            ELSE Ok(MapUnit(x.val, y.val, s.val, o.val, l.val))

Array(s) == [t |-> "Array", a |-> s]
NoArray == [t |-> "Absent", a |-> <<>>]
NotArray == [t |-> "String", a |-> <<>>]

Tree(rt, x, y, s, o, l) ==
    [root |-> rt, LocationPosX |-> x, LocationPosY |-> y, LocationSize |-> s,
     Objs |-> o, Rails |-> l]

\* filter_map(|(k, v)| v.map(|v| (k, Byml::Float(v))))
OptNode(f) == IF f.some THEN FloatNode(f.v) ELSE Absent

\* an encoding that puts the rails under "Objs" and the objects under "Rails"
ToBymlSwapped(val) ==
    Tree("Hash", OptNode(val.pos_x), OptNode(val.pos_y), OptNode(val.size),
         Array(SDM_Values(val.rails)), Array(SDM_Values(val.objects)))

\* impl From<MapUnit> for Byml
ToByml(val) ==
    Tree("Hash", OptNode(val.pos_x), OptNode(val.pos_y), OptNode(val.size),
         Array(SDM_Values(val.objects)), Array(SDM_Values(val.rails)))

\* a diff taken in the wrong direction for the containers
DiffReversed(self, other) ==
    MapUnit(other.pos_x, other.pos_y, other.size,
            SDM_Diff(other.objects, self.objects),
            SDM_Diff(other.rails, self.rails))

\* Mergeable::diff
Diff(self, other) ==
    MapUnit(other.pos_x, other.pos_y, other.size,
            SDM_Diff(self.objects, other.objects),
            SDM_Diff(self.rails, other.rails))

\* a merge of the rails with the diff's objects
MergeRailsFromObjects(self, diff) ==
    MapUnit(diff.pos_x, diff.pos_y, diff.size,
            SDM_Merge(self.objects, diff.objects),
            SDM_Merge(self.rails, diff.objects))

\* a merge in which the diff is the receiver and the base the argument
MergeBaseWins(self, diff) ==
    MapUnit(diff.pos_x, diff.pos_y, diff.size,
            SDM_Merge(diff.objects, self.objects),
            SDM_Merge(diff.rails, self.rails))

\* Mergeable::merge
Merge(self, diff) ==
    MapUnit(diff.pos_x, diff.pos_y, diff.size,
            SDM_Merge(self.objects, diff.objects),
            SDM_Merge(self.rails, diff.rails))

-----------------------------------------------------------------------------
(* The inputs the operations are applied to.                               *)

\* the ways to split a size among scalars, objects and rails
Splits(n) == {t \in (0..n) \X (0..n) \X (0..n) : t[1] + t[2] + t[3] = n}

\* the scalar triples with exactly n fields present
ScalarsOf(n) ==
    {t \in OptF32 \X OptF32 \X OptF32 : Cardinality({i \in 1..3 : t[i].some}) = n}

LiveEntries == {Entry(i, Obj(i, body)) : i \in HashIds, body \in Bodies}
DiffEntries == LiveEntries \cup {Tomb(i) : i \in HashIds}

\* the containers of exactly n entries of E with unique identifiers
RECURSIVE ContsOf(_, _)
ContsOf(E, n) ==
    IF n = 0
    THEN {<<>>}
    ELSE UNION {{Append(c, e) : e \in {x \in E : x.key \notin Keys(c)}} : c \in ContsOf(E, n - 1)}

\* the MapUnits of size n with entries of E
UnitsOf(E, n) ==
    UNION {{MapUnit(sc[1], sc[2], sc[3], o, l) :
                sc \in ScalarsOf(t[1]), o \in ContsOf(E, t[2]), l \in ContsOf(E, t[3])} :
           t \in Splits(n)}

\* well-formed MapUnit values: no tombstones
UnitsBySize == [n \in 0..MaxUnit |-> UnitsOf(LiveEntries, n)]
Units(n) == UnitsBySize[n]
\* diffs as a mod may carry them: live entries and tombstones
DiffUnitsBySize == [n \in 0..MaxUnit |-> UnitsOf(DiffEntries, n)]
DiffUnits(n) == DiffUnitsBySize[n]

\* the sizes from lo up that one operand may have when hi is left for it
Sizes(lo, hi) == {n \in lo..hi : n <= MaxUnit}

\* the present scalars and entries of a MapUnit
Size(u) ==
    Cardinality({f \in {"pos_x", "pos_y", "size"} : u[f].some})
        + Len(u.objects) + Len(u.rails)

\* the elements an Objs / Rails array may hold
Elems ==
    Objs \cup {ObjNode(Absent, body) : body \in Bodies}
         \cup {ObjNode(StringNode, body) : body \in Bodies}
         \cup {NotHashNode(body) : body \in Bodies}

\* the scalar nodes: (node, size)
ScalarNodes == {<<Absent, 0>>, <<StringNode, 1>>} \cup {<<FloatNode(x), 1>> : x \in Floats}
ScalarNodesOf(n) ==
    {<<t[1][1], t[2][1], t[3][1]>> :
        t \in {u \in ScalarNodes \X ScalarNodes \X ScalarNodes : u[1][2] + u[2][2] + u[3][2] = n}}

\* the array nodes of size n
ArraysOf(n) ==
    {Array(s) : s \in [1..n -> Elems]}
        \cup (IF n = 0 THEN {NoArray} ELSE {})
        \cup (IF n = 1 THEN {NotArray} ELSE {})

EmptyTree == Tree("Hash", Absent, Absent, Absent, Array(<<>>), Array(<<>>))

\* the variants of the root node: a hash, or something else
Roots == {"Hash", "String"}

\* an array with two elements of the same HashId
HasDuplicate(arr) ==
    /\ arr.t = "Array"
    /\ \E i, j \in DOMAIN arr.a :
          /\ i < j
          /\ arr.a[i].t = "Hash" /\ arr.a[j].t = "Hash"
          /\ arr.a[i].id.t = "UInt" /\ arr.a[j].id.t = "UInt"
          /\ arr.a[i].id.v = arr.a[j].id.v

\* two diffs that both modify some key of the same container
Overlap(x, y) ==
    \/ Keys(x.objects) \cap Keys(y.objects) # {}
    \/ Keys(x.rails) \cap Keys(y.rails) # {}

-----------------------------------------------------------------------------
(* The MapUnit operations as actions.                                      *)

UnitIdle ==
    /\ op = "idle"
    /\ tree = EmptyTree /\ tree2 = EmptyTree
    /\ dec = Err("") /\ dec2 = Err("")
    /\ a = EmptyUnit /\ b = EmptyUnit /\ d = EmptyUnit /\ d2 = EmptyUnit
    /\ r = EmptyUnit /\ r12 = EmptyUnit /\ r21 = EmptyUnit

\* let munt = MapUnit::try_from(&byml)
Decode ==
    /\ op = "idle"
    /\ \E n \in 0..MaxTree : \E s \in Splits(n) :
       \E rt \in Roots, sc \in ScalarNodesOf(s[1]), o \in ArraysOf(s[2]), l \in ArraysOf(s[3]) :
          /\ tree' = Tree(rt, sc[1], sc[2], sc[3], o, l)
          /\ dec' = TryFrom(Tree(rt, sc[1], sc[2], sc[3], o, l))
    /\ op' = "decoded"
    /\ UNCHANGED <<tree2, dec2, a, b, d, d2, r, r12, r21, svars, pvars>>

\* let munt2 = MapUnit::try_from(&Byml::from(munt.clone()))
Reencode ==
    /\ op = "decoded"
    /\ dec.ok
    /\ tree2' = ToByml(dec.val)
    /\ dec2' = TryFrom(ToByml(dec.val))
    /\ op' = "reencoded"
    /\ UNCHANGED <<tree, dec, a, b, d, d2, r, r12, r21, svars, pvars>>

\* let diff = munt.diff(&munt2)
DoDiff ==
    /\ op = "idle"
    /\ \E i \in Sizes(0, MaxSize) : \E j \in Sizes(0, MaxSize - i) :
       \E x \in Units(i), y \in Units(j) :
          /\ a' = x
          /\ b' = y
          /\ d' = Diff(x, y)
    /\ op' = "diffed"
    /\ UNCHANGED <<tree, dec, tree2, dec2, d2, r, r12, r21, svars, pvars>>

\* let merged = munt.merge(&diff)
MergeBack ==
    /\ op = "diffed"
    /\ r' = Merge(a, d)
    /\ op' = "roundtrip"
    /\ UNCHANGED <<tree, dec, tree2, dec2, a, b, d, d2, r12, r21, svars, pvars>>

\* base.merge(&diff) for a diff a mod supplies
DoMerge ==
    /\ op = "idle"
    /\ \E i \in Sizes(0, MaxSize) : \E j \in Sizes(0, MaxSize - i) :
       \E x \in Units(i), y \in DiffUnits(j) :
          /\ a' = x
          /\ d' = y
          /\ r' = Merge(x, y)
    /\ op' = "merged"
    /\ UNCHANGED <<tree, dec, tree2, dec2, b, d2, r12, r21, svars, pvars>>

\* a first mod's diff is chosen for the base
StackFirst ==
    /\ op = "idle"
    /\ \E i \in Sizes(0, MaxStack - 2) : \E j \in Sizes(1, MaxStack - 1 - i) :
       \E x \in Units(i), y \in DiffUnits(j) :
          /\ a' = x
          /\ d' = y
          /\ r' = Merge(x, y)
    /\ op' = "first"
    /\ UNCHANGED <<tree, dec, tree2, dec2, b, d2, r12, r21, svars, pvars>>

\* base.merge(d1).merge(d2) and base.merge(d2).merge(d1)
StackSecond ==
    /\ op = "first"
    /\ \E j \in Sizes(1, MaxStack - Size(a) - Size(d)) :
       \E y \in {z \in DiffUnits(j) : Overlap(d, z)} :
          /\ d2' = y
          /\ r12' = Merge(Merge(a, d), y)
          /\ r21' = Merge(Merge(a, y), d)
    /\ op' = "stacked"
    /\ UNCHANGED <<tree, dec, tree2, dec2, a, b, d, r, svars, pvars>>

-----------------------------------------------------------------------------
(* Platform and Settings (src/settings.rs)                                 *)

Platform == {"WiiU", "Switch"}
Endian == {"Big", "Little"}

\* impl From<roead::Endian> for Platform
PlatformFromRoead(e) == IF e = "Big" THEN "WiiU" ELSE "Switch"
\* impl From<Platform> for roead::Endian
RoeadFromPlatform(p) == IF p = "WiiU" THEN "Big" ELSE "Little"
\* impl From<uk_content::prelude::Endian> for Platform
PlatformFromContent(e) == IF e = "Big" THEN "WiiU" ELSE "Switch"
\* impl From<Platform> for uk_content::prelude::Endian
ContentFromPlatform(p) == IF p = "WiiU" THEN "Big" ELSE "Little"
\* impl From<rstb::Endian> for Platform
PlatformFromRstb(e) == IF e = "Big" THEN "WiiU" ELSE "Switch"
\* a conversion that ignores the platform
RstbAlwaysBig(p) == "Big"

\* impl From<Platform> for rstb::Endian
RstbFromPlatform(p) == IF p = "WiiU" THEN "Big" ELSE "Little"

Codecs == {"roead", "uk_content", "rstb"}

IntoEndian(codec, p) ==
    CASE codec = "roead" -> RoeadFromPlatform(p)
      [] codec = "uk_content" -> ContentFromPlatform(p)
      [] codec = "rstb" -> RstbFromPlatform(p)

IntoPlatform(codec, e) ==
    CASE codec = "roead" -> PlatformFromRoead(e)
      [] codec = "uk_content" -> PlatformFromContent(e)
      [] codec = "rstb" -> PlatformFromRstb(e)

\* sample storage directories
StorageDirs == {<<"config", "ukmm">>, <<"portable">>}

\* struct Settings: an Option<PlatformSettings> is TRUE when it is Some
SettingsOf(mode, dir, wiiu, switch) ==
    [current_mode |-> mode, storage_dir |-> dir, wiiu_config |-> wiiu, switch_config |-> switch]

AllSettings ==
    {SettingsOf(m, sd, w, sw) : m \in Platform, sd \in StorageDirs, w \in BOOLEAN, sw \in BOOLEAN}

\* Settings::default
DefaultSettings == SettingsOf("WiiU", <<"config", "ukmm">>, FALSE, FALSE)

\* Settings::get_platform_dir
GetPlatformDir(st, p) ==
    IF p = "Switch" THEN Append(st.storage_dir, "nx") ELSE Append(st.storage_dir, "wiiu")

\* Settings::dump: the platform whose dump is returned, "None" when there is none
Dump(st) ==
    IF st.current_mode = "Switch"
    THEN (IF st.switch_config THEN "Switch" ELSE "None")
    ELSE (IF st.wiiu_config THEN "WiiU" ELSE "None")

NoConv == [dir |-> "none", codec |-> "none", from |-> "none", to |-> "none", back |-> "none"]

SettingsIdle ==
    /\ conv = NoConv
    /\ pdir = [p |-> "none", path |-> <<>>]

\* Settings::read: any settings file
ReadSettings ==
    /\ settings \in AllSettings
    /\ SettingsIdle

\* let e: Endian = p.into(); let back: Platform = e.into()
ConvertPlatform ==
    /\ \E c \in Codecs, p \in Platform :
          conv' = [dir |-> "platform", codec |-> c, from |-> p, to |-> IntoEndian(c, p),
                   back |-> IntoPlatform(c, IntoEndian(c, p))]
    /\ UNCHANGED <<settings, pdir, uvars, pvars>>

\* let p: Platform = e.into(); let back: Endian = p.into()
ConvertEndian ==
    /\ \E c \in Codecs, e \in Endian :
          conv' = [dir |-> "endian", codec |-> c, from |-> e, to |-> IntoPlatform(c, e),
                   back |-> IntoEndian(c, IntoPlatform(c, e))]
    /\ UNCHANGED <<settings, pdir, uvars, pvars>>

\* settings.get_platform_dir(p)
PlatformDir ==
    /\ \E p \in Platform : pdir' = [p |-> p, path |-> GetPlatformDir(settings, p)]
    /\ UNCHANGED <<settings, conv, uvars, pvars>>

-----------------------------------------------------------------------------
(* BnpConverter::handle_actorinfo (uk-manager/src/bnp/actorinfo.rs)        *)

\* the platform a converter is built for: the entry point is given a platform
ConverterPlatforms == Platform

\* logs/actorinfo.yml: absent, or what reading and parsing it comes to
Patches == {"absent", "unreadable", "badtext", "notmap", "badkey", "ok"}

\* what a dump holds at the path: nothing, or a resource and its as_mergeable() view
Resources == {"missing", "unmergeable", "other", "actorinfo"}

NoFile == [gen |-> "none", len |-> 0, endian |-> "none"]
OldFile == [gen |-> "old", len |-> MaxChunks, endian |-> "none"]

PipeIdle ==
    /\ pc = "idle"
    /\ fetched = "None"
    /\ endian = "none"
    /\ result = [ok |-> FALSE, err |-> "running"]

PipeFixed ==
    /\ PipeIdle
    /\ platform = "WiiU"
    /\ patch = "absent"
    /\ resource = [p \in Platform |-> "missing"]
    /\ out0 = NoFile
    /\ out = out0

PipeInit ==
    /\ PipeIdle
    /\ platform \in ConverterPlatforms
    /\ patch \in Patches
    /\ resource \in [Platform -> Resources]
    /\ out0 \in {NoFile, OldFile}
    /\ out = out0

Return(ok, e) ==
    /\ result' = [ok |-> ok, err |-> e]
    /\ pc' = "done"

\* if path.exists() { .. } Ok(())
Exists ==
    /\ pc = "idle"
    /\ IF patch = "absent"
       THEN Return(TRUE, "")
       ELSE pc' = "parse" /\ UNCHANGED result
    /\ UNCHANGED <<platform, patch, resource, out0, out, fetched, endian, uvars, svars>>

\* Byml::from_text(fs::read_to_string(path)?)?.into_hash()? .. .map(ActorInfo)?
Parse ==
    /\ pc = "parse"
    /\ CASE patch = "unreadable" -> Return(FALSE, "Failed to read actorinfo log")
         [] patch = "badtext" -> Return(FALSE, "Failed to parse actorinfo log")
         [] patch = "notmap" -> Return(FALSE, "Invalid actorinfo log: not a map")
         [] patch = "badkey" -> Return(FALSE, "ParseIntError")
         [] OTHER -> pc' = "fetch" /\ UNCHANGED result
    /\ UNCHANGED <<platform, patch, resource, out0, out, fetched, endian, uvars, svars>>

\* self.core.settings().dump().context(..)?.get_data("Actor/ActorInfo.product.sbyml")?
Fetch ==
    /\ pc = "fetch"
    /\ IF Dump(settings) = "None"
       THEN Return(FALSE, "No dump for current platform") /\ UNCHANGED fetched
       ELSE IF resource[Dump(settings)] = "missing"
            THEN Return(FALSE, "get_data") /\ UNCHANGED fetched
            ELSE /\ fetched' = Dump(settings)
                 /\ pc' = "view"
                 /\ UNCHANGED result
    /\ UNCHANGED <<platform, patch, resource, out0, out, endian, uvars, svars>>

\* if let Some(MergeableResource::ActorInfo(info)) = actorinfo.as_mergeable() { .. }
View ==
    /\ pc = "view"
    /\ IF resource[fetched] = "actorinfo"
       THEN pc' = "mkdir" /\ UNCHANGED result
       ELSE Return(TRUE, "")
    /\ UNCHANGED <<platform, patch, resource, out0, out, fetched, endian, uvars, svars>>

\* fs::create_dir_all(..)?
Mkdir ==
    /\ pc = "mkdir"
    /\ \E ok \in BOOLEAN :
          IF ok THEN pc' = "encode" /\ UNCHANGED result
          ELSE Return(FALSE, "create_dir_all")
    /\ UNCHANGED <<platform, patch, resource, out0, out, fetched, endian, uvars, svars>>

\* compress(info.merge(&diff).into_binary(self.platform.into()))
Encode ==
    /\ pc = "encode"
    /\ endian' = RoeadFromPlatform(platform)
    /\ pc' = "open"
    /\ UNCHANGED <<platform, patch, resource, out0, out, fetched, result, uvars, svars>>

\* fs::write: the file is created, or truncated when it exists
Open ==
    /\ pc = "open"
    /\ \E ok \in BOOLEAN :
          IF ok
          THEN /\ out' = [gen |-> "new", len |-> 0, endian |-> endian]
               /\ pc' = "write"
               /\ UNCHANGED result
          ELSE Return(FALSE, "write") /\ UNCHANGED out
    /\ UNCHANGED <<platform, patch, resource, out0, fetched, endian, uvars, svars>>

\* fs::write: the bytes are written; Ok(()) when all are
Write ==
    /\ pc = "write"
    /\ \E ok \in BOOLEAN :
          IF ~ok
          THEN Return(FALSE, "write") /\ UNCHANGED out
          ELSE /\ out' = [out EXCEPT !.len = out.len + 1]
               /\ IF out.len + 1 = MaxChunks
                  THEN Return(TRUE, "")
                  ELSE UNCHANGED <<pc, result>>
    /\ UNCHANGED <<platform, patch, resource, out0, fetched, endian, uvars, svars>>

-----------------------------------------------------------------------------
(* Specifications                                                          *)

\* the MapUnit operations run with the settings and the converter left alone
UnitInit == UnitIdle /\ settings = DefaultSettings /\ SettingsIdle /\ PipeFixed
\* the settings are read from any settings file
SettingsInit == UnitIdle /\ ReadSettings /\ PipeFixed
\* a converter is built for any mod, settings and dumps
PipeStart == UnitIdle /\ ReadSettings /\ PipeInit

NextAdapter == Decode \/ Reencode
NextRound == DoDiff \/ MergeBack
NextMerge == DoMerge
NextStack == StackFirst \/ StackSecond
NextSettings == ConvertPlatform \/ ConvertEndian \/ PlatformDir
NextPipe == Exists \/ Parse \/ Fetch \/ View \/ Mkdir \/ Encode \/ Open \/ Write

SpecAdapter == UnitInit /\ [][NextAdapter]_vars
SpecRound == UnitInit /\ [][NextRound]_vars
SpecMerge == UnitInit /\ [][NextMerge]_vars
SpecStack == UnitInit /\ [][NextStack]_vars
SpecSettings == SettingsInit /\ [][NextSettings]_vars
SpecPipe == PipeStart /\ [][NextPipe]_vars

-----------------------------------------------------------------------------
(* Properties                                                              *)

Fields == {"pos_x", "pos_y", "size"}
Containers == {"objects", "rails"}

\* equality of two MapUnits: the scalars field by field, the containers entry by entry
UnitEq(x, y) ==
    /\ \A f \in Fields : x[f] = y[f]
    /\ \A c \in Containers : SDM_Eq(x[c], y[c])

C2_NoneMeansUnchanged ==
    op = "merged" => \A f \in Fields : r[f] = (IF d[f].some THEN d[f] ELSE a[f])

\* C3: for a key both diffs carry a live value for, the later diff's value is the
\* one the stacked merge holds, in either order; a key the later diff tombstones
\* is absent.
C3_Stacking ==
    op = "stacked" =>
        \A c \in Containers :
            /\ \A k \in LiveKeys(d[c]) \cap LiveKeys(d2[c]) :
                  /\ k \in LiveKeys(r12[c]) /\ Get(r12[c], k) = Get(d2[c], k)
                  /\ k \in LiveKeys(r21[c]) /\ Get(r21[c], k) = Get(d[c], k)
            /\ \A k \in Keys(d[c]) \cap DeadKeys(d2[c]) : k \notin Keys(r12[c])
            /\ \A k \in Keys(d2[c]) \cap DeadKeys(d[c]) : k \notin Keys(r21[c])

\* two diffs give a key of the base different values, and the order shows
C3_Witness ==
    /\ op = "stacked"
    /\ \E k \in LiveKeys(a.objects) \cap LiveKeys(d.objects) \cap LiveKeys(d2.objects) :
          /\ Get(d.objects, k) # Get(d2.objects, k)
          /\ Get(r12.objects, k) # Get(r21.objects, k)

\* the merged container res of base bs and diff df, as the contract words it
MergedAs(bs, df, res) ==
    LET kept == LiveKeys(bs) \ DeadKeys(df)
        new == LiveKeys(df) \ Keys(bs)
        Before(i, j) ==
            \/ res[i].key \in kept /\ res[j].key \in kept
                  /\ IndexOf(bs, res[i].key) < IndexOf(bs, res[j].key)
            \/ res[i].key \in kept /\ res[j].key \in new
            \/ res[i].key \in new /\ res[j].key \in new
                  /\ IndexOf(df, res[i].key) < IndexOf(df, res[j].key)
        IsLive(e) == ~e.del
    IN /\ Keys(res) = kept \cup new
       /\ Len(res) = Cardinality(kept \cup new)
       /\ \A i \in DOMAIN res :
             /\ ~res[i].del
             /\ res[i].val = (IF res[i].key \in LiveKeys(df)
                              THEN Get(df, res[i].key)
                              ELSE Get(bs, res[i].key))
       /\ \A i, j \in DOMAIN res : i < j => Before(i, j)
       /\ (DeadKeys(df) \cap Keys(bs) = {} /\ LiveKeys(df) = {}) => res = bs
       /\ bs = <<>> => res = SelectSeq(df, IsLive)

\* C4: the merged objects and rails list the base's keys in base order, tombstoned
\* keys dropped and diffed keys replaced in place, then the diff's new live keys in
\* diff order; an empty diff or a tombstone for an absent key changes nothing, and
\* an empty base yields the diff's live entries.
C4_MergeOrder ==
    op = "merged" => \A c \in Containers : MergedAs(a[c], d[c], r[c])

\* a base of two objects: the first replaced in place, a new one appended
C4_Witness ==
    /\ op = "merged"
    /\ Len(a.objects) = 2 /\ Len(r.objects) = 3
    /\ a.objects[1].key \in LiveKeys(d.objects)
    /\ r.objects[1].val # a.objects[1].val
    /\ d.objects[1].key \notin Keys(a.objects)

\* C5: a decoded MapUnit, encoded and decoded again, is the same MapUnit.
C5_AdapterRoundTrip == op = "reencoded" => dec2.ok /\ dec2.val = dec.val

\* a decoded unit with a scalar and an object goes through the round trip
C5_Witness ==
    /\ op = "reencoded"
    /\ dec.val.pos_y.some
    /\ Len(dec.val.objects) = 1

\* C6: Platform has two values; every codec's conversion takes WiiU to Big and
\* Switch to Little and back, both round trips are the identity, and the two
\* platforms have distinct subdirectories of storage_dir.
C6_PlatformEndian ==
    /\ Cardinality(Platform) = 2
    /\ conv.dir = "platform" =>
          /\ conv.to = (IF conv.from = "WiiU" THEN "Big" ELSE "Little")
          /\ conv.back = conv.from
    /\ conv.dir = "endian" =>
          /\ conv.to = (IF conv.from = "Big" THEN "WiiU" ELSE "Switch")
          /\ conv.back = conv.from
    /\ pdir.p # "none" =>
          /\ SubSeq(pdir.path, 1, Len(settings.storage_dir)) = settings.storage_dir
          /\ Len(pdir.path) = Len(settings.storage_dir) + 1
          /\ \A q \in Platform \ {pdir.p} : GetPlatformDir(settings, q) # pdir.path

\* the rstb conversion of Switch and the Switch directory have been taken
C6_Witness ==
    /\ conv.dir = "platform" /\ conv.codec = "rstb" /\ conv.from = "Switch"
    /\ pdir.p = "Switch"

\* C7: decoding a tree whose Objs or Rails array holds two elements of the same
\* HashId fails.
C7_DuplicatesRejected ==
    (op = "decoded" /\ (HasDuplicate(tree.Objs) \/ HasDuplicate(tree.Rails))) => ~dec.ok

\* C8: after a run that failed, the output path holds what it held before the run
\* or the complete new artifact.
C8_AllOrNothing ==
    (pc = "done" /\ ~result.ok) =>
        (out = out0 \/ (out.gen = "new" /\ out.len = MaxChunks))

\* C9: with a patch that parses and a dump that returns a base resource without an
\* ActorInfo view, handle_actorinfo returns a failure.
C9_FailsLoudly ==
    (/\ pc = "done"
     /\ patch = "ok"
     /\ Dump(settings) # "None"
     /\ resource[Dump(settings)] \in {"unmergeable", "other"}) => ~result.ok

====
